---- MODULE Spec2Model ----
(***************************************************************************)
(* The public-bucket worker: public GET of R2 objects by key, and a        *)
(* JWT-authenticated link shortener kept in a KV namespace.                 *)
(*                                                                         *)
(* Strings that the code takes apart are modelled by their parts:          *)
(*   - a key, and the path of a request URL, is the sequence of its        *)
(*     characters;                                                         *)
(*   - an Authorization header is the sequence of its space-separated      *)
(*     parts (what split(' ') returns), and each part is the sequence of   *)
(*     its dot-separated segments (what split('.') returns);               *)
(*   - a JSON object is a record whose DOMAIN holds the fields present.    *)
(***************************************************************************)
EXTENDS Integers, Sequences, FiniteSets, TLC

VARIABLES
    SHORT_LINKS,    \* contents of the KV namespace: key -> stored text
    PUBLIC_BUCKET,  \* contents of the R2 bucket: key -> object
    configured,     \* whether env.SHORT_LINKS is bound
    now,            \* Date.now(), in milliseconds
    request,        \* the request being answered (NoRequest between requests)
    jwks,           \* what JWKS_URL serves while the request is answered
    response,       \* the response of the handler (NoResponse between requests)
    calls,          \* the collaborator calls the handler made, in order
    prev,           \* method and response of the exchange before this one
    inflight        \* the invocations of fetch that run side by side, each at an await

vars == <<SHORT_LINKS, PUBLIC_BUCKET, configured, now, request, jwks, response, calls, prev,
          inflight>>

----------------------------------------------------------------------------
(* Configuration ([vars] of wrangler.toml, as the README gives it).        *)

JWT_ISSUER == "https://your-auth-provider.com/"

JWT_AUDIENCE == "public-bucket"

source == "https://github.com/pkoch/pkoch-public-bucket"

MsPerSecond == 1000

\* The clock stops advancing at this many seconds.
MaxNowSeconds == 2

----------------------------------------------------------------------------
(* JSON objects.                                                           *)

Has(obj, f) == f \in DOMAIN obj

\* The value null (verifyJWT's failure, a KV or R2 miss).
Null == [null |-> TRUE]

\* JSON.stringify of an object, and a stored text that is no JSON.
JSONstringify(obj) == [json |-> obj]

CorruptText == [raw |-> "not json"]

\* JSON.parse: [ok, value]; ok is FALSE where JSON.parse throws.
JSONparse(text) ==
    IF Has(text, "json") THEN [ok |-> TRUE, value |-> text.json]
                         ELSE [ok |-> FALSE, value |-> Null]

----------------------------------------------------------------------------
(* new URL(request.url).pathname and the key derived from it.              *)

\* The characters the URL parser percent-encodes in a path (of the model's
\* alphabet: the space).
EncodeChar(c) == IF c = " " THEN <<"%", "2", "0">> ELSE <<c>>

RECURSIVE EncodePath(_)
EncodePath(s) ==
    IF s = <<>> THEN <<>>
    ELSE IF Head(s) \in {"?", "#"} THEN <<>>     \* query and fragment are not path
    ELSE EncodeChar(Head(s)) \o EncodePath(Tail(s))

\* url.pathname of a request whose URL, after the origin, is `target`.
pathname(target) == EncodePath(target)

\* const key = url.pathname.slice(1)
KeyOf(req) == Tail(pathname(req.target))

----------------------------------------------------------------------------
(* Tokens.  A segment is named by a string; the tables give what atob and  *)
(* JSON.parse make of it.  A signature segment "sig:k" stands for the      *)
(* RS256 signature of the token's own header.payload under the private     *)
(* key of JWKS key k; any other segment verifies under no key.             *)

HeaderTable ==
    [ h \in {"hdr:k1", "hdr:k9"} |->
        IF h = "hdr:k1" THEN [alg |-> "RS256", kid |-> "k1"]
                        ELSE [alg |-> "RS256", kid |-> "k9"] ]

PayloadTable ==
    [ p \in {"alice", "nosub", "badaud", "noaud", "badiss", "exp1", "exp2", "exp0", "nbf3", "noexp"} |->
        CASE p = "alice"  -> [iss |-> JWT_ISSUER, aud |-> JWT_AUDIENCE, exp |-> 9, sub |-> "alice"]
          [] p = "nosub"  -> [iss |-> JWT_ISSUER, aud |-> JWT_AUDIENCE, exp |-> 9]
          [] p = "badaud" -> [iss |-> JWT_ISSUER, aud |-> "other-audience", exp |-> 9, sub |-> "alice"]
          [] p = "noaud"  -> [iss |-> JWT_ISSUER, exp |-> 9, sub |-> "alice"]
          [] p = "badiss" -> [iss |-> "https://evil.example/", aud |-> JWT_AUDIENCE, exp |-> 9, sub |-> "alice"]
          [] p = "exp1"   -> [iss |-> JWT_ISSUER, aud |-> JWT_AUDIENCE, exp |-> 1, sub |-> "alice"]
          [] p = "exp2"   -> [iss |-> JWT_ISSUER, aud |-> JWT_AUDIENCE, exp |-> 2, sub |-> "alice"]
          [] p = "exp0"   -> [iss |-> JWT_ISSUER, aud |-> JWT_AUDIENCE, exp |-> 0, sub |-> "alice"]
          [] p = "nbf3"   -> [iss |-> JWT_ISSUER, aud |-> JWT_AUDIENCE, exp |-> 9, nbf |-> 3, sub |-> "alice"]
          [] p = "noexp"  -> [iss |-> JWT_ISSUER, aud |-> JWT_AUDIENCE, sub |-> "alice"] ]

\* JSON.parse(atob(segment)) of a header segment: [ok, value].
DecodeHeader(seg) ==
    IF seg \in DOMAIN HeaderTable THEN [ok |-> TRUE, value |-> HeaderTable[seg]]
                                  ELSE [ok |-> FALSE, value |-> Null]

\* JSON.parse(atob(segment)) of a payload segment: [ok, value].
DecodePayload(seg) ==
    IF seg \in DOMAIN PayloadTable THEN [ok |-> TRUE, value |-> PayloadTable[seg]]
                                   ELSE [ok |-> FALSE, value |-> Null]

SignatureTable ==
    [ s \in {"sig:k1", "sig:k9"} |-> IF s = "sig:k1" THEN "k1" ELSE "k9" ]

\* crypto.subtle.verify(key, signature, header.payload) for the JWKS key `kid`.
cryptoVerify(kid, sigSeg) ==
    sigSeg \in DOMAIN SignatureTable /\ SignatureTable[sigSeg] = kid

\* What JWKS_URL may serve: the key set, or a failed fetch.
JwksUp == [ok |-> TRUE, keys |-> {"k1"}]

JwksDown == [ok |-> FALSE, keys |-> {}]

----------------------------------------------------------------------------
(* verifyJWT, extractToken, requireAuth.                                   *)

\* payload.exp && payload.exp < Date.now() / 1000
Expired(payload, t) ==
    Has(payload, "exp") /\ payload.exp # 0 /\ payload.exp * MsPerSecond < t

\* payload.nbf && payload.nbf > Date.now() / 1000
NotYetValid(payload, t) ==
    Has(payload, "nbf") /\ payload.nbf # 0 /\ payload.nbf * MsPerSecond > t

\* CheckPayload without the audience check.
CheckPayload_NoAudience(payload, t) ==
    IF ~Has(payload, "iss") \/ payload.iss # JWT_ISSUER THEN Null
    ELSE IF Expired(payload, t) THEN Null
    ELSE IF NotYetValid(payload, t) THEN Null
    ELSE payload

\* The checks on the decoded payload; every throw is caught and returns null.
CheckPayload(payload, t) ==
    IF ~Has(payload, "iss") \/ payload.iss # JWT_ISSUER THEN Null
    ELSE IF ~Has(payload, "aud") \/ payload.aud # JWT_AUDIENCE THEN Null
    ELSE IF Expired(payload, t) THEN Null
    ELSE IF NotYetValid(payload, t) THEN Null
    ELSE payload

\* verifyJWT(token, env): the payload, or Null.  `token` is token.split('.').
verifyJWT(token, j, t) ==
    IF ~j.ok THEN Null                                  \* Failed to fetch JWKS
    ELSE LET header == DecodeHeader(token[1]) IN
      IF ~header.ok THEN Null                           \* JSON.parse / atob throws
      ELSE IF header.value.kid \notin j.keys THEN Null   \* Key not found in JWKS
      ELSE IF Len(token) < 3 THEN Null                  \* signaturePart is undefined
      ELSE IF ~cryptoVerify(header.value.kid, token[3]) THEN Null
      ELSE LET payload == DecodePayload(token[2]) IN
        IF ~payload.ok THEN Null
        ELSE CheckPayload(payload.value, t)

\* A part of the header that is the empty string, and the scheme.
EmptyString == <<"">>

Bearer == <<"Bearer">>

\* extractToken's null.
NoToken == <<>>

NoAuthorization == [present |-> FALSE, parts |-> <<>>]

\* extractToken without the test of the scheme word.
extractToken_AnyScheme(req) ==
    LET authHeader == req.auth IN
    IF ~authHeader.present \/ authHeader.parts = <<EmptyString>> THEN NoToken
    ELSE IF Len(authHeader.parts) # 2 THEN NoToken
    ELSE authHeader.parts[2]

\* extractToken(request): parts[1], or NoToken.
extractToken(req) ==
    LET authHeader == req.auth IN
    IF ~authHeader.present \/ authHeader.parts = <<EmptyString>> THEN NoToken
    ELSE IF Len(authHeader.parts) # 2 \/ authHeader.parts[1] # Bearer THEN NoToken
    ELSE authHeader.parts[2]

NoHeaders == [h \in {} |-> ""]

Response(status, body, headers) ==
    [status |-> status, body |-> body, headers |-> headers]

Text(s) == [text |-> s]

\* requireAuth that lets a request without a token through as anonymous.
requireAuth_TokenOptional(req, j, t) ==
    LET token == extractToken(req) IN
    IF token = NoToken \/ token = EmptyString
    THEN [rejected |-> FALSE, response |-> Null,
          payload |-> [anonymous |-> TRUE], calls |-> <<>>]
    ELSE LET payload == verifyJWT(token, j, t) IN
      IF payload = Null
      THEN [rejected |-> TRUE,
            response |-> Response(401, Text("Unauthorized: Invalid token"), NoHeaders),
            payload |-> Null, calls |-> <<"verifyJWT", "fetch(JWKS_URL)">>]
      ELSE [rejected |-> FALSE, response |-> Null,
            payload |-> payload, calls |-> <<"verifyJWT", "fetch(JWKS_URL)">>]

\* requireAuth(request, env): [rejected, response, payload, calls].
requireAuth(req, j, t) ==
    LET token == extractToken(req) IN
    IF token = NoToken \/ token = EmptyString
    THEN [rejected |-> TRUE,
          response |-> Response(401, Text("Unauthorized: No token provided"), NoHeaders),
          payload |-> Null, calls |-> <<>>]
    ELSE LET payload == verifyJWT(token, j, t) IN
      IF payload = Null
      THEN [rejected |-> TRUE,
            response |-> Response(401, Text("Unauthorized: Invalid token"), NoHeaders),
            payload |-> Null, calls |-> <<"verifyJWT", "fetch(JWKS_URL)">>]
      ELSE [rejected |-> FALSE, response |-> Null,
            payload |-> payload, calls |-> <<"verifyJWT", "fetch(JWKS_URL)">>]

----------------------------------------------------------------------------
(* The two stores.                                                         *)

NoEntries == [k \in {} |-> Null]

\* env.SHORT_LINKS.get(key) / env.PUBLIC_BUCKET.get(key): the value, or Null.
get(store, key) == IF key \in DOMAIN store THEN store[key] ELSE Null

\* env.SHORT_LINKS.put(key, value)
put(store, key, value) ==
    [k \in DOMAIN store \cup {key} |-> IF k = key THEN value ELSE store[k]]

\* env.SHORT_LINKS.delete(key)
delete(store, key) == [k \in DOMAIN store \ {key} |-> store[k]]

\* What a handler hands back: its response, the KV contents it leaves, its calls.
Outcome(resp, kv, cs) == [response |-> resp, kv |-> kv, calls |-> cs]

----------------------------------------------------------------------------
(* fetch(request, env), one operator per case of the switch.               *)

\* Fall back to R2 bucket access.
bucketGET(key, kv, bucket, cs) ==
    LET object == get(bucket, key) IN
    IF object = Null \/ ~Has(object, "body")
    THEN Outcome(Response(404, [text |-> "Object Not Found: ", key |-> key], NoHeaders),
                 kv, cs \o <<"PUBLIC_BUCKET.get">>)
    ELSE Outcome(Response(200, [stream |-> object.body],
                          [contentType |-> object.httpMetadata.contentType,
                           etag |-> object.httpEtag]),
                 kv, cs \o <<"PUBLIC_BUCKET.get">>)

\* linkGET that asks the bucket first and the link store on a miss.
linkGET_BlobFirst(key, kv, bucket) ==
    LET object == get(bucket, key) IN
    IF object # Null /\ Has(object, "body")
    THEN bucketGET(key, kv, bucket, <<>>)
    ELSE LET shortLink == get(kv, key) IN
      IF shortLink # Null /\ JSONparse(shortLink).ok
      THEN Outcome(Response(302, Null, [Location |-> JSONparse(shortLink).value.url]),
                   kv, <<"PUBLIC_BUCKET.get", "SHORT_LINKS.get">>)
      ELSE Outcome(Response(404, [text |-> "Object Not Found: ", key |-> key], NoHeaders),
                   kv, <<"PUBLIC_BUCKET.get", "SHORT_LINKS.get">>)

\* linkGET that answers a stored value it cannot parse with an error.
linkGET_CorruptIsError(key, kv, bucket) ==
    LET shortLink == get(kv, key) IN
    IF shortLink = Null THEN bucketGET(key, kv, bucket, <<"SHORT_LINKS.get">>)
    ELSE LET linkData == JSONparse(shortLink) IN
      IF linkData.ok
      THEN Outcome(Response(302, Null, [Location |-> linkData.value.url]),
                   kv, <<"SHORT_LINKS.get">>)
      ELSE Outcome(Response(500, Text("Invalid short link data"), NoHeaders),
                   kv, <<"SHORT_LINKS.get">>)

\* First, check if it's a short link.
linkGET(key, kv, bucket) ==
    LET shortLink == get(kv, key) IN
    IF shortLink = Null THEN bucketGET(key, kv, bucket, <<"SHORT_LINKS.get">>)
    ELSE LET linkData == JSONparse(shortLink) IN
      IF linkData.ok
      THEN Outcome(Response(302, Null, [Location |-> linkData.value.url]),
                   kv, <<"SHORT_LINKS.get">>)
      ELSE bucketGET(key, kv, bucket, <<"SHORT_LINKS.get">>)

\* fetchGET without the case of the empty key.
fetchGET_NoRootCase(req, kv, cfg, bucket) ==
    LET key == KeyOf(req) IN
    IF cfg THEN linkGET(key, kv, bucket)
    ELSE bucketGET(key, kv, bucket, <<>>)

fetchGET(req, kv, cfg, bucket) ==
    LET key == KeyOf(req) IN
    IF key = <<>>
    THEN Outcome(Response(302, Text("I need a key. Check the source at "), [Location |-> source]),
                 kv, <<>>)
    ELSE IF cfg THEN linkGET(key, kv, bucket)
    ELSE bucketGET(key, kv, bucket, <<>>)

\* !body.key || !body.url
MissingFields(body) ==
    \/ ~Has(body, "key") \/ body.key = <<>>
    \/ ~Has(body, "url") \/ body.url = ""

\* authResult.sub || 'unknown'
SubOf(payload) ==
    IF Has(payload, "sub") /\ payload.sub # "" THEN payload.sub ELSE "unknown"

NotConfigured(kv) ==
    Outcome(Response(503, Text("Short links not configured"), NoHeaders), kv, <<>>)

\* createLink without the check that the key already exists.
createLink_Overwrite(req, payload, kv, t, cs) ==
    LET body == JSONparse(req.body) IN
    IF ~body.ok \/ body.value = Null
    THEN Outcome(Response(400, Text("Invalid request body"), NoHeaders), kv, cs)
    ELSE IF MissingFields(body.value)
    THEN Outcome(Response(400, Text("Missing required fields: key and url"), NoHeaders), kv, cs)
    ELSE LET linkData == [url |-> body.value.url, created |-> t, createdBy |-> SubOf(payload)] IN
      Outcome(Response(201,
                       [json |-> [success |-> TRUE, key |-> body.value.key, url |-> body.value.url]],
                       [contentType |-> "application/json"]),
              put(kv, body.value.key, JSONstringify(linkData)),
              cs \o <<"SHORT_LINKS.put">>)

\* The try block of case 'POST', after authentication.
createLink(req, payload, kv, t, cs) ==
    LET body == JSONparse(req.body) IN
    IF ~body.ok \/ body.value = Null       \* request.json() or body.key throws
    THEN Outcome(Response(400, Text("Invalid request body"), NoHeaders), kv, cs)
    ELSE IF MissingFields(body.value)
    THEN Outcome(Response(400, Text("Missing required fields: key and url"), NoHeaders), kv, cs)
    ELSE IF get(kv, body.value.key) # Null
    THEN Outcome(Response(409, Text("Short link already exists"), NoHeaders),
                 kv, cs \o <<"SHORT_LINKS.get">>)
    ELSE LET linkData == [url |-> body.value.url, created |-> t, createdBy |-> SubOf(payload)] IN
      Outcome(Response(201,
                       [json |-> [success |-> TRUE, key |-> body.value.key, url |-> body.value.url]],
                       [contentType |-> "application/json"]),
              put(kv, body.value.key, JSONstringify(linkData)),
              cs \o <<"SHORT_LINKS.get", "SHORT_LINKS.put">>)

\* fetchPOST that authenticates before it looks for the binding.
fetchPOST_AuthFirst(req, j, kv, cfg, t) ==
    LET authResult == requireAuth(req, j, t) IN
    IF authResult.rejected THEN Outcome(authResult.response, kv, authResult.calls)
    ELSE IF ~cfg THEN NotConfigured(kv)
    ELSE createLink(req, authResult.payload, kv, t, authResult.calls)

fetchPOST(req, j, kv, cfg, t) ==
    IF ~cfg THEN NotConfigured(kv)
    ELSE LET authResult == requireAuth(req, j, t) IN
      IF authResult.rejected THEN Outcome(authResult.response, kv, authResult.calls)
      ELSE createLink(req, authResult.payload, kv, t, authResult.calls)

\* updateLink that creates the record when the key is absent.
updateLink_Upsert(req, payload, kv, t, cs) ==
    LET bodyPut == JSONparse(req.body) IN
    IF ~bodyPut.ok \/ bodyPut.value = Null
    THEN Outcome(Response(400, Text("Invalid request body"), NoHeaders), kv, cs)
    ELSE IF MissingFields(bodyPut.value)
    THEN Outcome(Response(400, Text("Missing required fields: key and url"), NoHeaders), kv, cs)
    ELSE LET linkDataPut == [url |-> bodyPut.value.url, updated |-> t, updatedBy |-> SubOf(payload)] IN
      Outcome(Response(200,
                       [json |-> [success |-> TRUE, key |-> bodyPut.value.key, url |-> bodyPut.value.url]],
                       [contentType |-> "application/json"]),
              put(kv, bodyPut.value.key, JSONstringify(linkDataPut)),
              cs \o <<"SHORT_LINKS.put">>)

\* updateLink that writes the record under the key of the path.
updateLink_PathKey(req, payload, kv, t, cs) ==
    LET bodyPut == JSONparse(req.body) IN
    IF ~bodyPut.ok \/ bodyPut.value = Null
    THEN Outcome(Response(400, Text("Invalid request body"), NoHeaders), kv, cs)
    ELSE IF MissingFields(bodyPut.value)
    THEN Outcome(Response(400, Text("Missing required fields: key and url"), NoHeaders), kv, cs)
    ELSE IF get(kv, bodyPut.value.key) = Null
    THEN Outcome(Response(404, Text("Short link not found"), NoHeaders),
                 kv, cs \o <<"SHORT_LINKS.get">>)
    ELSE LET linkDataPut == [url |-> bodyPut.value.url, updated |-> t, updatedBy |-> SubOf(payload)] IN
      Outcome(Response(200,
                       [json |-> [success |-> TRUE, key |-> bodyPut.value.key, url |-> bodyPut.value.url]],
                       [contentType |-> "application/json"]),
              put(kv, KeyOf(req), JSONstringify(linkDataPut)),
              cs \o <<"SHORT_LINKS.get", "SHORT_LINKS.put">>)

\* The try block of case 'PUT', after authentication.
updateLink(req, payload, kv, t, cs) ==
    LET bodyPut == JSONparse(req.body) IN
    IF ~bodyPut.ok \/ bodyPut.value = Null
    THEN Outcome(Response(400, Text("Invalid request body"), NoHeaders), kv, cs)
    ELSE IF MissingFields(bodyPut.value)
    THEN Outcome(Response(400, Text("Missing required fields: key and url"), NoHeaders), kv, cs)
    ELSE IF get(kv, bodyPut.value.key) = Null
    THEN Outcome(Response(404, Text("Short link not found"), NoHeaders),
                 kv, cs \o <<"SHORT_LINKS.get">>)
    ELSE LET linkDataPut == [url |-> bodyPut.value.url, updated |-> t, updatedBy |-> SubOf(payload)] IN
      Outcome(Response(200,
                       [json |-> [success |-> TRUE, key |-> bodyPut.value.key, url |-> bodyPut.value.url]],
                       [contentType |-> "application/json"]),
              put(kv, bodyPut.value.key, JSONstringify(linkDataPut)),
              cs \o <<"SHORT_LINKS.get", "SHORT_LINKS.put">>)

fetchPUT(req, j, kv, cfg, t) ==
    IF ~cfg THEN NotConfigured(kv)
    ELSE LET authResultPut == requireAuth(req, j, t) IN
      IF authResultPut.rejected THEN Outcome(authResultPut.response, kv, authResultPut.calls)
      ELSE updateLink(req, authResultPut.payload, kv, t, authResultPut.calls)

\* deleteLink that answers 200 and leaves the record in the store.
deleteLink_KeepsRecord(key, kv, cs) ==
    IF key = <<>>
    THEN Outcome(Response(400, Text("Missing key"), NoHeaders), kv, cs)
    ELSE IF get(kv, key) = Null
    THEN Outcome(Response(404, Text("Short link not found"), NoHeaders),
                 kv, cs \o <<"SHORT_LINKS.get">>)
    ELSE Outcome(Response(200, [json |-> [success |-> TRUE, key |-> key]],
                          [contentType |-> "application/json"]),
                 kv,
                 cs \o <<"SHORT_LINKS.get">>)

\* case 'DELETE', after authentication.
deleteLink(key, kv, cs) ==
    IF key = <<>>
    THEN Outcome(Response(400, Text("Missing key"), NoHeaders), kv, cs)
    ELSE IF get(kv, key) = Null
    THEN Outcome(Response(404, Text("Short link not found"), NoHeaders),
                 kv, cs \o <<"SHORT_LINKS.get">>)
    ELSE Outcome(Response(200, [json |-> [success |-> TRUE, key |-> key]],
                          [contentType |-> "application/json"]),
                 delete(kv, key),
                 cs \o <<"SHORT_LINKS.get", "SHORT_LINKS.delete">>)

\* fetchDELETE that tests the key before it asks the Auth Gate.
fetchDELETE_KeyFirst(req, j, kv, cfg, t) ==
    IF ~cfg THEN NotConfigured(kv)
    ELSE IF KeyOf(req) = <<>> THEN deleteLink(KeyOf(req), kv, <<>>)
    ELSE LET authResultDelete == requireAuth(req, j, t) IN
      IF authResultDelete.rejected
      THEN Outcome(authResultDelete.response, kv, authResultDelete.calls)
      ELSE deleteLink(KeyOf(req), kv, authResultDelete.calls)

fetchDELETE(req, j, kv, cfg, t) ==
    IF ~cfg THEN NotConfigured(kv)
    ELSE LET authResultDelete == requireAuth(req, j, t) IN
      IF authResultDelete.rejected
      THEN Outcome(authResultDelete.response, kv, authResultDelete.calls)
      ELSE deleteLink(KeyOf(req), kv, authResultDelete.calls)

\* fetchDefault with the Allow header of the bucket-only worker.
fetchDefault_AllowGet(kv) ==
    Outcome(Response(405, Text("Method Not Allowed"), [Allow |-> "GET"]), kv, <<>>)

fetchDefault(kv) ==
    Outcome(Response(405, Text("Method Not Allowed"), [Allow |-> "GET, POST, PUT, DELETE"]),
            kv, <<>>)

\* export default { async fetch(request, env) }
fetch(req, j, kv, cfg, bucket, t) ==
    CASE req.method = "GET"    -> fetchGET(req, kv, cfg, bucket)
      [] req.method = "POST"   -> fetchPOST(req, j, kv, cfg, t)
      [] req.method = "PUT"    -> fetchPUT(req, j, kv, cfg, t)
      [] req.method = "DELETE" -> fetchDELETE(req, j, kv, cfg, t)
      [] OTHER                 -> fetchDefault(kv)

\* handleRequest(request) of the older, bucket-only worker (index.js).
handleRequest(req, bucket) ==
    LET key == KeyOf(req) IN
    IF req.method = "GET"
    THEN LET object == get(bucket, key) IN
      IF object = Null \/ ~Has(object, "body")
      THEN Response(404, Text("Object Not Found"), NoHeaders)
      ELSE Response(200, [stream |-> object.body],
                    [contentType |-> object.httpMetadata.contentType,
                     etag |-> object.httpEtag])
    ELSE Response(405, Text("Method Not Allowed"), [Allow |-> "GET"])

----------------------------------------------------------------------------
(* The requests the model sends.                                           *)

Req(m, target, auth, body) ==
    [method |-> m, target |-> target, auth |-> auth, body |-> body]

\* A token signed by JWKS key k1 whose payload segment is p.
Signed(p) == <<"hdr:k1", p, "sig:k1">>

BearerAuth(token) == [present |-> TRUE, parts |-> <<Bearer, token>>]

\* Tokens that are not a k1-signed header.payload.signature.
OddTokens ==
    { <<"hdr:k1", "alice", "sig:k9">>,          \* signed by another key
      <<"hdr:k1", "alice", "garbage">>,         \* no signature at all
      <<"hdr:k9", "alice", "sig:k9">>,          \* kid not in the JWKS
      <<"garbage", "alice", "sig:k1">>,         \* undecodable header
      <<"hdr:k1", "garbage", "sig:k1">>,        \* undecodable payload
      <<"hdr:k1">>,
      <<"hdr:k1", "alice">>,
      <<"hdr:k1", "alice", "sig:k1", "extra">> }

Tokens == {Signed(p) : p \in DOMAIN PayloadTable} \cup OddTokens

\* Authorization headers that are not `Bearer <token>`.
OddAuthorizations ==
    { NoAuthorization,
      [present |-> TRUE, parts |-> <<EmptyString>>],                          \* ""
      [present |-> TRUE, parts |-> <<Bearer>>],                               \* "Bearer"
      [present |-> TRUE, parts |-> <<Bearer, EmptyString>>],                  \* "Bearer "
      [present |-> TRUE, parts |-> <<<<"Basic">>, Signed("alice")>>],
      [present |-> TRUE, parts |-> <<<<"bearer">>, Signed("alice")>>],
      [present |-> TRUE, parts |-> <<Bearer, EmptyString, Signed("alice")>>], \* two spaces
      [present |-> TRUE, parts |-> <<Bearer, Signed("alice"), <<"x">>>>] }

Authorizations == {BearerAuth(tok) : tok \in Tokens} \cup OddAuthorizations

\* The Authorization headers of the requests that exercise routing.
FewAuthorizations ==
    { NoAuthorization, BearerAuth(Signed("alice")), BearerAuth(Signed("nosub")),
      BearerAuth(<<"hdr:k1", "alice", "sig:k9">>) }

KeyA == <<"a">>

KeySpace == <<"a", " ">>

Root == <<"/">>

Targets == { Root, Root \o KeyA, Root \o KeySpace, <<"/", "a", "?", "b">> }

Link(k, u) == JSONstringify([key |-> k, url |-> u])

NotJson == CorruptText

Bodies ==
    { NotJson, JSONstringify(Null),
      Link(KeyA, "https://x"), Link(KeyA, "https://y"), Link(KeySpace, "https://x"),
      JSONstringify([url |-> "https://x"]), Link(KeyA, ""), Link(<<>>, "https://x") }

\* Requests that exercise routing, the stores and the body checks.
Requests ==
    {Req("GET", tg, a, NotJson) : tg \in Targets, a \in FewAuthorizations}
    \cup {Req(m, Root, a, b) : m \in {"POST", "PUT"}, a \in FewAuthorizations, b \in Bodies}
    \cup {Req(m, Root \o KeyA, a, Link(KeyA, "https://x")) : m \in {"POST", "PUT"}, a \in FewAuthorizations}
    \cup {Req("DELETE", tg, a, NotJson) : tg \in Targets, a \in FewAuthorizations}
    \cup {Req("DELETE", Root \o KeyA, a, Link(KeyA, "https://x")) : a \in FewAuthorizations}
    \cup {Req(m, tg, a, NotJson) : m \in {"PATCH", "OPTIONS"}, tg \in {Root, Root \o KeyA},
                                   a \in {NoAuthorization, BearerAuth(Signed("alice"))}}

\* Requests that exercise the Auth Gate and the verifier.
AuthRequests ==
    {Req(m, Root \o KeyA, a, Link(KeyA, "https://x")) :
        m \in {"POST", "PUT", "DELETE"}, a \in Authorizations}

----------------------------------------------------------------------------
(* The state machine.                                                      *)

NoRequest == [method |-> "NONE"]

Blob(text) ==
    [body |-> text, httpEtag |-> "etag", httpMetadata |-> [contentType |-> "text/plain"]]

\* An R2 object returned without a body.
Bodiless == [httpEtag |-> "etag", httpMetadata |-> [contentType |-> "text/plain"]]

Buckets ==
    { NoEntries,
      [k \in {KeyA, <<"a", "%", "2", "0">>} |-> IF k = KeyA THEN Blob("It worked!") ELSE Bodiless] }

\* The KV namespace may hold a value the worker did not write.
InitialLinks == { NoEntries, [k \in {KeyA} |-> CorruptText] }

\* Invocations of fetch that may run side by side.
NumHandlers == 2

Handlers == 1..NumHandlers

\* An invocation slot without a request.
Idle == [pc |-> "idle", request |-> NoRequest, payload |-> Null, response |-> Null]

Init ==
    /\ configured \in BOOLEAN
    /\ SHORT_LINKS \in (IF configured THEN InitialLinks ELSE {NoEntries})
    /\ PUBLIC_BUCKET \in Buckets
    /\ now = 1500
    /\ request = NoRequest
    /\ jwks = JwksUp
    /\ response = Null
    /\ calls = <<>>
    /\ prev = [method |-> "NONE", response |-> Null]
    /\ inflight = [p \in Handlers |-> Idle]

\* The worker answers one request; the handler runs to its return.
Fetch(req, j) ==
    /\ request = NoRequest
    /\ LET out == fetch(req, j, SHORT_LINKS, configured, PUBLIC_BUCKET, now) IN
         /\ request' = req
         /\ jwks' = j
         /\ response' = out.response
         /\ SHORT_LINKS' = out.kv
         /\ calls' = out.calls
    /\ UNCHANGED <<PUBLIC_BUCKET, configured, now, prev, inflight>>

\* The response reaches the client, which may then send its next request.
Deliver ==
    /\ request # NoRequest
    /\ prev' = [method |-> request.method, response |-> response]
    /\ request' = NoRequest
    /\ jwks' = JwksUp
    /\ response' = Null
    /\ calls' = <<>>
    /\ UNCHANGED <<SHORT_LINKS, PUBLIC_BUCKET, configured, now, inflight>>

\* A second passes between two requests.
Tick ==
    /\ request = NoRequest
    /\ now < MaxNowSeconds * MsPerSecond
    /\ now' = now + MsPerSecond
    /\ UNCHANGED <<SHORT_LINKS, PUBLIC_BUCKET, configured, request, jwks, response, calls, prev,
                   inflight>>

FetchAny == \E req \in Requests : Fetch(req, JwksUp)

FetchAuth == \E req \in AuthRequests, j \in {JwksUp, JwksDown} : Fetch(req, j)

Next == FetchAny \/ Deliver \/ Tick

Spec == Init /\ [][Next]_vars

NextAuth == FetchAuth \/ Deliver \/ Tick

SpecAuth == Init /\ [][NextAuth]_vars

----------------------------------------------------------------------------
(* Vocabulary of the properties.                                           *)

Mutating == {"POST", "PUT", "DELETE"}

\* The step in which the worker answers a request.
Answers == request = NoRequest /\ request' # NoRequest

Called(cs, c) == \E i \in 1..Len(cs) : cs[i] = c

\* The header has the shape `Bearer <token>` with a non-empty token.
WellFormedBearer(auth) ==
    /\ auth.present
    /\ Len(auth.parts) = 2
    /\ auth.parts[1] = Bearer
    /\ auth.parts[2] # EmptyString

\* The Auth Gate has a reason to reject the request.
GateRejects(req, j, t) ==
    \/ ~WellFormedBearer(req.auth)
    \/ verifyJWT(req.auth.parts[2], j, t) = Null

\* The body is a JSON object with a non-empty key and a non-empty url.
WellFormedBody(req) ==
    /\ Has(req.body, "json")
    /\ Has(req.body.json, "key") /\ req.body.json.key # <<>>
    /\ Has(req.body.json, "url") /\ req.body.json.url # ""

\* The bucket holds an object with a body under the key.
BlobHit(bucket, key) == key \in DOMAIN bucket /\ Has(bucket[key], "body")

\* The response redirects to url.
RedirectsTo(resp, url) ==
    resp.status = 302 /\ Has(resp.headers, "Location") /\ resp.headers.Location = url

\* The previous exchange was a POST answered 201 for key k and url u.
Created(p, k, u) ==
    /\ p.method = "POST"
    /\ p.response.status = 201
    /\ p.response.body.json.key = k
    /\ p.response.body.json.url = u

\* The previous exchange was a DELETE answered 200 for key k.
Deleted(p, k) ==
    /\ p.method = "DELETE"
    /\ p.response.status = 200
    /\ p.response.body.json.key = k

----------------------------------------------------------------------------
(* C1: for every non-empty key k and url u, a POST of {key: k, url: u}     *)
(* answered 201 and followed at once by GET /k is answered 302 with        *)
(* Location u, and not from the bucket.  The 201 names the key and url of  *)
(* the request's body.                                                     *)
C1_CreateThenGet ==
    /\ (request # NoRequest /\ request.method = "POST" /\ response.status = 201)
         => /\ WellFormedBody(request)
            /\ response.body.json.key = request.body.json.key
            /\ response.body.json.url = request.body.json.url
    /\ \A k \in {KeyA, KeySpace}, u \in {"https://x", "https://y"} :
         (request # NoRequest /\ request.method = "GET" /\ request.target = Root \o k
            /\ Created(prev, k, u))
         => /\ RedirectsTo(response, u)
            /\ ~Called(calls, "PUBLIC_BUCKET.get")

----------------------------------------------------------------------------
(* C2: an authenticated POST with a well-formed body for a key that the    *)
(* link store already holds answers 409 and leaves the store, and so the   *)
(* stored record, as it was.                                               *)
C2_DuplicateCreate ==
    [][ ( /\ Answers
          /\ request'.method = "POST"
          /\ configured
          /\ ~GateRejects(request', jwks', now)
          /\ WellFormedBody(request')
          /\ request'.body.json.key \in DOMAIN SHORT_LINKS )
        => ( /\ response'.status = 409
             /\ SHORT_LINKS' = SHORT_LINKS ) ]_vars

\* A second POST for a key whose record the first POST wrote was answered 409.
C2_Witness ==
    /\ request # NoRequest
    /\ request.method = "POST"
    /\ response.status = 409
    /\ Has(SHORT_LINKS[request.body.json.key], "json")
    /\ SHORT_LINKS[request.body.json.key].json.url # request.body.json.url

(* C3: an authenticated PUT with a well-formed body for a key that the     *)
(* link store does not hold answers 404 and leaves the whole store as it   *)
(* was: the key stays absent and no other key changes.                     *)
C3_UpdateAbsent ==
    [][ ( /\ Answers
          /\ request'.method = "PUT"
          /\ configured
          /\ ~GateRejects(request', jwks', now)
          /\ WellFormedBody(request')
          /\ request'.body.json.key \notin DOMAIN SHORT_LINKS )
        => ( /\ response'.status = 404
             /\ request'.body.json.key \notin DOMAIN SHORT_LINKS'
             /\ SHORT_LINKS' = SHORT_LINKS ) ]_vars

\* A PUT for an absent key was answered 404 while another key was stored.
C3_Witness ==
    /\ request # NoRequest
    /\ request.method = "PUT"
    /\ response.status = 404
    /\ ~GateRejects(request, jwks, now)
    /\ request.body.json.key \notin DOMAIN SHORT_LINKS
    /\ SHORT_LINKS # NoEntries

(* C4: an authenticated DELETE of a non-empty key answers 404 when the     *)
(* link store does not hold the key; when it does, it answers 200 and      *)
(* removes that record alone, and the GET of the key that follows does not *)
(* redirect: it is answered from the bucket, 200 on a hit and 404 on a     *)
(* miss.                                                                   *)
C4_Delete ==
    [][ /\ ( /\ Answers
             /\ request'.method = "DELETE"
             /\ configured
             /\ ~GateRejects(request', jwks', now)
             /\ KeyOf(request') # <<>> )
           => IF KeyOf(request') \in DOMAIN SHORT_LINKS
              THEN /\ response'.status = 200
                   /\ DOMAIN SHORT_LINKS' = DOMAIN SHORT_LINKS \ {KeyOf(request')}
                   /\ \A k \in DOMAIN SHORT_LINKS' : SHORT_LINKS'[k] = SHORT_LINKS[k]
              ELSE /\ response'.status = 404
                   /\ SHORT_LINKS' = SHORT_LINKS
        /\ ( /\ Answers
             /\ request'.method = "GET"
             /\ prev.method = "DELETE" /\ prev.response.status = 200
             /\ Deleted(prev, KeyOf(request')) )
           => /\ response'.status = (IF BlobHit(PUBLIC_BUCKET, KeyOf(request')) THEN 200 ELSE 404)
              /\ calls' = <<"SHORT_LINKS.get", "PUBLIC_BUCKET.get">> ]_vars

\* The GET that follows the DELETE of a key was served from the bucket.
C4_Witness ==
    /\ request # NoRequest
    /\ request.method = "GET"
    /\ prev.method = "DELETE" /\ prev.response.status = 200
    /\ Deleted(prev, KeyOf(request))
    /\ response.status = 200
    /\ Has(response.body, "stream")

----------------------------------------------------------------------------
(* C5: with the link store configured, a POST, PUT or DELETE that the Auth *)
(* Gate rejects (no header, a header that is not `Bearer <token>`, a token *)
(* the verifier rejects) answers 401 and neither puts to nor deletes from  *)
(* the link store; a request that does put or delete called the verifier   *)
(* first and got a claim set from it.                                      *)
C5_RejectedNeverMutates ==
    [][ ( /\ Answers
          /\ request'.method \in Mutating
          /\ configured )
        => /\ GateRejects(request', jwks', now)
                => /\ response'.status = 401
                   /\ SHORT_LINKS' = SHORT_LINKS
                   /\ ~Called(calls', "SHORT_LINKS.put")
                   /\ ~Called(calls', "SHORT_LINKS.delete")
           /\ ( \/ SHORT_LINKS' # SHORT_LINKS
                \/ Called(calls', "SHORT_LINKS.put")
                \/ Called(calls', "SHORT_LINKS.delete") )
                => /\ ~GateRejects(request', jwks', now)
                   /\ calls'[1] = "verifyJWT" ]_vars

\* A request without an Authorization header was answered 401 while the
\* store held a record it would otherwise have changed.
C5_Witness ==
    /\ request # NoRequest
    /\ request.method = "DELETE"
    /\ ~request.auth.present
    /\ response.status = 401
    /\ KeyOf(request) \in DOMAIN SHORT_LINKS

\* The signature of the token verifies under the JWKS key its kid names.
SignatureVerifies(token, j) ==
    /\ j.ok
    /\ Len(token) >= 3
    /\ DecodeHeader(token[1]).ok
    /\ DecodeHeader(token[1]).value.kid \in j.keys
    /\ cryptoVerify(DecodeHeader(token[1]).value.kid, token[3])

\* The request carries `Bearer <token>`, the token's signature verifies and
\* its payload decodes.
CarriesSignedToken(req, j) ==
    /\ WellFormedBearer(req.auth)
    /\ SignatureVerifies(req.auth.parts[2], j)
    /\ DecodePayload(req.auth.parts[2][2]).ok

ClaimsOf(req) == DecodePayload(req.auth.parts[2][2]).value

(* C6: a token whose signature verifies but whose aud is not exactly       *)
(* JWT_AUDIENCE, or whose iss is not exactly JWT_ISSUER, is rejected:      *)
(* verifyJWT returns null and the request answers 401.                     *)
C6_AudienceAndIssuer ==
    ( /\ request # NoRequest
      /\ request.method \in Mutating
      /\ configured
      /\ CarriesSignedToken(request, jwks)
      /\ \/ ~Has(ClaimsOf(request), "aud") \/ ClaimsOf(request).aud # JWT_AUDIENCE
         \/ ~Has(ClaimsOf(request), "iss") \/ ClaimsOf(request).iss # JWT_ISSUER )
    => /\ verifyJWT(request.auth.parts[2], jwks, now) = Null
       /\ response.status = 401
       /\ calls = <<"verifyJWT", "fetch(JWKS_URL)">>

\* A signed, unexpired token with the right issuer and another audience was
\* answered 401.
C6_Witness ==
    /\ request # NoRequest
    /\ request.method = "POST"
    /\ configured
    /\ CarriesSignedToken(request, jwks)
    /\ ClaimsOf(request).iss = JWT_ISSUER
    /\ Has(ClaimsOf(request), "aud") /\ ClaimsOf(request).aud # JWT_AUDIENCE
    /\ ClaimsOf(request).exp * MsPerSecond > now
    /\ response.status = 401

(* C7: a token that carries an exp claim whose value, zero included, is    *)
(* strictly less than the current time in seconds is rejected and the      *)
(* request answers 401, also when signature, issuer and audience are       *)
(* valid.                                                                  *)
C7_ExpiredRejected ==
    ( /\ request # NoRequest
      /\ request.method \in Mutating
      /\ configured
      /\ CarriesSignedToken(request, jwks)
      /\ Has(ClaimsOf(request), "exp")
      /\ ClaimsOf(request).exp * MsPerSecond < now )
    => response.status = 401

(* C8: GET with an empty key answers 302 with Location the repository      *)
(* URL, whatever the Authorization header, the configuration and the       *)
(* contents of the stores, and calls neither store.                        *)
C8_RootRedirect ==
    ( /\ request # NoRequest
      /\ request.method = "GET"
      /\ KeyOf(request) = <<>> )
    => /\ RedirectsTo(response, "https://github.com/pkoch/pkoch-public-bucket")
       /\ calls = <<>>

\* GET / was answered with the redirect while a record and objects were
\* stored and the request carried a token.
C8_Witness ==
    /\ request # NoRequest
    /\ request.method = "GET"
    /\ request.target = Root
    /\ request.auth.present
    /\ configured
    /\ SHORT_LINKS # NoEntries
    /\ PUBLIC_BUCKET # NoEntries
    /\ response.status = 302

(* C9: a request whose method is none of GET, POST, PUT, DELETE answers    *)
(* 405 with Allow: GET, POST, PUT, DELETE, whatever its path and the       *)
(* contents of the stores; it calls no store and not the Auth Gate.        *)
C9_MethodNotAllowed ==
    ( /\ request # NoRequest
      /\ request.method \notin {"GET", "POST", "PUT", "DELETE"} )
    => /\ response.status = 405
       /\ Has(response.headers, "Allow")
       /\ response.headers.Allow = "GET, POST, PUT, DELETE"
       /\ calls = <<>>

\* A PATCH of a stored key was answered 405.
C9_Witness ==
    /\ request # NoRequest
    /\ request.method = "PATCH"
    /\ KeyOf(request) \in DOMAIN SHORT_LINKS
    /\ response.status = 405

(* C10: without the link-store binding every POST, PUT and DELETE answers  *)
(* 503 whatever its header, body and key, and reaches neither the Auth     *)
(* Gate nor the JWKS; a GET of a non-empty key is answered from the bucket *)
(* alone, 200 on a hit and 404 on a miss, with the status and headers of   *)
(* the bucket-only worker.                                                 *)
C10_Unconfigured ==
    ( /\ request # NoRequest
      /\ ~configured )
    => /\ request.method \in Mutating
            => /\ response.status = 503
               /\ calls = <<>>
       /\ (request.method = "GET" /\ KeyOf(request) # <<>>)
            => /\ response.status = (IF BlobHit(PUBLIC_BUCKET, KeyOf(request)) THEN 200 ELSE 404)
               /\ calls = <<"PUBLIC_BUCKET.get">>
               /\ response.status = handleRequest(request, PUBLIC_BUCKET).status
               /\ response.headers = handleRequest(request, PUBLIC_BUCKET).headers

\* Without the binding, a POST with a valid token and a well-formed body
\* was answered 503.
C10_Witness ==
    /\ request # NoRequest
    /\ ~configured
    /\ request.method = "POST"
    /\ ~GateRejects(request, jwks, now)
    /\ WellFormedBody(request)
    /\ response.status = 503

----------------------------------------------------------------------------
\* The stored value of key k is a record that carries created and createdBy.
HasProvenance(kv, k) ==
    /\ k \in DOMAIN kv
    /\ Has(kv[k], "json")
    /\ Has(kv[k].json, "created")
    /\ Has(kv[k].json, "createdBy")

(* C11: a PUT answered 200 for a key whose record carries the created and  *)
(* createdBy that its POST wrote leaves a record that still carries both,  *)
(* with their values, and that has the new url and updated and updatedBy.  *)
C11_ProvenanceKept ==
    [][ ( /\ Answers
          /\ request'.method = "PUT"
          /\ response'.status = 200
          /\ HasProvenance(SHORT_LINKS, request'.body.json.key) )
        => LET k == request'.body.json.key IN
             /\ HasProvenance(SHORT_LINKS', k)
             /\ SHORT_LINKS'[k].json.created = SHORT_LINKS[k].json.created
             /\ SHORT_LINKS'[k].json.createdBy = SHORT_LINKS[k].json.createdBy
             /\ SHORT_LINKS'[k].json.url = request'.body.json.url
             /\ Has(SHORT_LINKS'[k].json, "updated")
             /\ Has(SHORT_LINKS'[k].json, "updatedBy") ]_vars

----------------------------------------------------------------------------
(* C14: a mutating request whose `Bearer <token>` token does not split on  *)
(* "." into exactly three segments, fewer or more, answers 401 and its     *)
(* token is rejected by verifyJWT, also when the first three segments are  *)
(* those of a valid token.                                                 *)
C14_ExactlyThreeSegments ==
    ( /\ request # NoRequest
      /\ request.method \in Mutating
      /\ configured
      /\ WellFormedBearer(request.auth)
      /\ Len(request.auth.parts[2]) # 3 )
    => /\ verifyJWT(request.auth.parts[2], jwks, now) = Null
       /\ response.status = 401

----------------------------------------------------------------------------
(* C15: with the link store configured, a mutating request whose           *)
(* Authorization header is absent or does not split on single spaces into  *)
(* exactly two parts, the first exactly `Bearer` and the second non-empty,  *)
(* answers 401 without a call of verifyJWT and without a fetch of the      *)
(* JWKS; a header of that shape has its second part handed to verifyJWT.   *)
C15_HeaderShape ==
    ( /\ request # NoRequest
      /\ request.method \in Mutating
      /\ configured )
    => IF WellFormedBearer(request.auth)
       THEN /\ Len(calls) >= 2
            /\ calls[1] = "verifyJWT"
            /\ response.status = 401
                 <=> verifyJWT(request.auth.parts[2], jwks, now) = Null
       ELSE /\ response.status = 401
            /\ response.body = Text("Unauthorized: No token provided")
            /\ calls = <<>>

\* A header with another scheme word before a valid token was answered 401
\* without a call of the verifier.
C15_Witness ==
    /\ request # NoRequest
    /\ request.method = "POST"
    /\ configured
    /\ request.auth.present
    /\ Len(request.auth.parts) = 2
    /\ request.auth.parts[1] # Bearer
    /\ verifyJWT(request.auth.parts[2], jwks, now) # Null
    /\ response.status = 401
    /\ calls = <<>>

----------------------------------------------------------------------------
\* What a mutating request fails validation on: the body of a POST or PUT,
\* the key of a DELETE.
FailsValidation(req) ==
    IF req.method = "DELETE" THEN KeyOf(req) = <<>> ELSE ~WellFormedBody(req)

\* The key whose existence a mutating request asks the link store for.
SubjectKey(req) ==
    IF req.method = "DELETE" THEN KeyOf(req) ELSE req.body.json.key

\* The calls the Auth Gate makes for a request.
GateCalls(req) ==
    IF WellFormedBearer(req.auth) THEN <<"verifyJWT", "fetch(JWKS_URL)">> ELSE <<>>

(* C16: a mutating request is checked in the order configuration (503),    *)
(* Auth Gate (401), validation (400), existence (409 for POST, 404 for PUT *)
(* and DELETE), store write: it is answered by the first check that fails  *)
(* and makes no call that belongs to a later check.  So a request the gate *)
(* rejects answers 401 also with an invalid body or an empty DELETE key,   *)
(* and the link store is read only after verifyJWT returned a payload.     *)
C16_CheckOrder ==
    [][ ( /\ Answers
          /\ request'.method \in Mutating )
        => LET req == request' IN
           IF ~configured
           THEN response'.status = 503 /\ calls' = <<>>
           ELSE IF GateRejects(req, jwks', now)
           THEN response'.status = 401 /\ calls' = GateCalls(req)
           ELSE IF FailsValidation(req)
           THEN response'.status = 400 /\ calls' = GateCalls(req)
           ELSE IF (req.method = "POST") = (SubjectKey(req) \in DOMAIN SHORT_LINKS)
           THEN /\ response'.status = (IF req.method = "POST" THEN 409 ELSE 404)
                /\ calls' = GateCalls(req) \o <<"SHORT_LINKS.get">>
           ELSE /\ response'.status = (IF req.method = "POST" THEN 201 ELSE 200)
                /\ calls' = GateCalls(req) \o
                     <<"SHORT_LINKS.get",
                       IF req.method = "DELETE" THEN "SHORT_LINKS.delete"
                                                ELSE "SHORT_LINKS.put">> ]_vars

\* A DELETE of the empty key without a token was answered 401 while the
\* store held a record.
C16_Witness ==
    /\ request # NoRequest
    /\ request.method = "DELETE"
    /\ KeyOf(request) = <<>>
    /\ FailsValidation(request)
    /\ ~request.auth.present
    /\ configured
    /\ SHORT_LINKS # NoEntries
    /\ response.status = 401
    /\ calls = <<>>

----------------------------------------------------------------------------
\* The link store holds a value for the key that parses as JSON.
LinkHit(kv, key) == key \in DOMAIN kv /\ JSONparse(kv[key]).ok

(* C17: with the link store configured, the GET of a non-empty key asks    *)
(* the link store first.  A value that parses answers 302 to its url and   *)
(* the bucket is not asked, also when it holds an object under the key;    *)
(* the bucket is asked only after the link store missed, and then gives    *)
(* the answer.                                                             *)
C17_LinkBeforeBlob ==
    ( /\ request # NoRequest
      /\ request.method = "GET"
      /\ configured
      /\ KeyOf(request) # <<>> )
    => LET key == KeyOf(request) IN
       /\ calls[1] = "SHORT_LINKS.get"
       /\ IF LinkHit(SHORT_LINKS, key)
          THEN /\ RedirectsTo(response, SHORT_LINKS[key].json.url)
               /\ calls = <<"SHORT_LINKS.get">>
          ELSE /\ calls = <<"SHORT_LINKS.get", "PUBLIC_BUCKET.get">>
               /\ response.status = (IF BlobHit(PUBLIC_BUCKET, key) THEN 200 ELSE 404)

\* The GET of a key that names a short link and an object of the bucket was
\* redirected.
C17_Witness ==
    /\ request # NoRequest
    /\ request.method = "GET"
    /\ configured
    /\ LinkHit(SHORT_LINKS, KeyOf(request))
    /\ BlobHit(PUBLIC_BUCKET, KeyOf(request))
    /\ response.status = 302
    /\ calls = <<"SHORT_LINKS.get">>

----------------------------------------------------------------------------
\* The link store holds a value for the key that does not parse as JSON.
LinkCorrupt(kv, key) == key \in DOMAIN kv /\ ~JSONparse(kv[key]).ok

(* C18: the GET of a key whose stored value is present and does not parse  *)
(* as JSON is treated as a miss: the bucket is asked and gives the answer, *)
(* 200 with the object on a hit and 404 on a miss, and the link store, the *)
(* corrupt value included, is left as it was.                              *)
C18_CorruptIsMiss ==
    [][ ( /\ Answers
          /\ request'.method = "GET"
          /\ configured
          /\ KeyOf(request') # <<>>
          /\ LinkCorrupt(SHORT_LINKS, KeyOf(request')) )
        => LET key == KeyOf(request') IN
           /\ calls' = <<"SHORT_LINKS.get", "PUBLIC_BUCKET.get">>
           /\ IF BlobHit(PUBLIC_BUCKET, key)
              THEN /\ response'.status = 200
                   /\ response'.body = [stream |-> PUBLIC_BUCKET[key].body]
              ELSE response'.status = 404
           /\ SHORT_LINKS' = SHORT_LINKS
           /\ LinkCorrupt(SHORT_LINKS', key) ]_vars

\* The GET of a key with a corrupt value was answered with the object of
\* the bucket.
C18_Witness ==
    /\ request # NoRequest
    /\ request.method = "GET"
    /\ configured
    /\ LinkCorrupt(SHORT_LINKS, KeyOf(request))
    /\ response.status = 200
    /\ Has(response.body, "stream")

----------------------------------------------------------------------------
\* The number of puts and deletes in a call trace.
Mutations(cs) ==
    Cardinality({i \in 1..Len(cs) : cs[i] \in {"SHORT_LINKS.put", "SHORT_LINKS.delete"}})

\* Two stores agree on every key but k.
SameBut(kv1, kv2, k) ==
    /\ DOMAIN kv1 \ {k} = DOMAIN kv2 \ {k}
    /\ \A x \in DOMAIN kv1 \ {k} : kv1[x] = kv2[x]

(* C20: a request makes at most one put or delete.  A POST answered 201    *)
(* and a PUT answered 200 write the entry of the key of the body and no    *)
(* other, whatever the path; a DELETE answered 200 removes the entry of    *)
(* the key of the path and no other; every other answer (every GET, every  *)
(* 400, 401, 404, 405, 409, 503) makes no put and no delete and leaves the *)
(* link store as it was.  No request changes the bucket.                   *)
C20_Frame ==
    [][ Answers =>
          LET req == request'
              st  == response'.status IN
          /\ Mutations(calls') <= 1
          /\ PUBLIC_BUCKET' = PUBLIC_BUCKET
          /\ IF (req.method = "POST" /\ st = 201) \/ (req.method = "PUT" /\ st = 200)
             THEN /\ Mutations(calls') = 1
                  /\ req.body.json.key \in DOMAIN SHORT_LINKS'
                  /\ Has(SHORT_LINKS'[req.body.json.key], "json")
                  /\ SHORT_LINKS'[req.body.json.key].json.url = req.body.json.url
                  /\ SameBut(SHORT_LINKS, SHORT_LINKS', req.body.json.key)
             ELSE IF req.method = "DELETE" /\ st = 200
             THEN /\ Mutations(calls') = 1
                  /\ KeyOf(req) \notin DOMAIN SHORT_LINKS'
                  /\ SameBut(SHORT_LINKS, SHORT_LINKS', KeyOf(req))
             ELSE /\ Mutations(calls') = 0
                  /\ SHORT_LINKS' = SHORT_LINKS ]_vars

\* A PUT to the root path was answered 200 and changed the record of the
\* key of its body while another record stayed.
C20_Witness ==
    /\ request # NoRequest
    /\ request.method = "PUT"
    /\ request.target = Root
    /\ response.status = 200
    /\ Cardinality(DOMAIN SHORT_LINKS) = 2
    /\ Has(SHORT_LINKS[request.body.json.key].json, "updated")
    /\ \E k \in DOMAIN SHORT_LINKS : Has(SHORT_LINKS[k].json, "created")

----------------------------------------------------------------------------
(* Failing collaborators: a call of a store that throws.                   *)

\* The store call that throws during a request, if any.
Faults ==
    {"none", "SHORT_LINKS.get", "SHORT_LINKS.put", "SHORT_LINKS.delete", "PUBLIC_BUCKET.get"}

\* The handler's promise rejects: the exception of call c leaves fetch.
Thrown(c) == [exception |-> c]

\* The calls made up to and including the first call of c.
UpTo(cs, c) ==
    SubSeq(cs, 1, CHOOSE i \in 1..Len(cs) :
                    cs[i] = c /\ \A h \in 1..(i - 1) : cs[h] # c)

\* fetch(request, env) when the call `fault` throws.  The handler runs as
\* without the fault up to that call.  The try blocks of POST and PUT
\* enclose their store calls and answer 400; the store calls of GET and
\* DELETE stand outside every try block.
fetchWithFault(req, j, kv, cfg, bucket, t, fault) ==
    LET out == fetch(req, j, kv, cfg, bucket, t) IN
    IF fault = "none" \/ \A i \in 1..Len(out.calls) : out.calls[i] # fault
    THEN out
    ELSE IF req.method \in {"POST", "PUT"}
    THEN Outcome(Response(400, Text("Invalid request body"), NoHeaders),
                 kv, UpTo(out.calls, fault))
    ELSE Outcome(Thrown(fault), kv, UpTo(out.calls, fault))

\* Requests of every method, with and without a token, a body and a key.
FaultRequests ==
    {Req(m, tg, a, b) :
        m \in {"GET", "POST", "PUT", "DELETE", "PATCH"},
        tg \in {Root, Root \o KeyA},
        a \in {NoAuthorization, BearerAuth(Signed("alice")),
               BearerAuth(<<"hdr:k1", "alice", "garbage">>)},
        b \in {NotJson, Link(KeyA, "https://x")}}

\* The worker answers one request while the call `fault` throws.
FetchWithFault(req, j, fault) ==
    /\ request = NoRequest
    /\ LET out == fetchWithFault(req, j, SHORT_LINKS, configured, PUBLIC_BUCKET, now, fault) IN
         /\ request' = req
         /\ jwks' = j
         /\ response' = out.response
         /\ SHORT_LINKS' = out.kv
         /\ calls' = out.calls
    /\ UNCHANGED <<PUBLIC_BUCKET, configured, now, prev, inflight>>

FetchFaulty ==
    \E req \in FaultRequests, j \in {JwksUp, JwksDown}, fault \in Faults :
        FetchWithFault(req, j, fault)

NextFaults == FetchFaulty \/ Deliver \/ Tick

SpecFaults == Init /\ [][NextFaults]_vars

(* C12: every request ends in an HTTP response, whatever its method and    *)
(* whichever collaborator fails (the JWKS fetch, the decoding or the       *)
(* signature of the token, the JSON of the body, a get, put or delete of   *)
(* the link store, a get of the bucket): no exception leaves fetch.        *)
C12_AlwaysResponse ==
    request # NoRequest
      => /\ Has(response, "status")
         /\ ~Has(response, "exception")

----------------------------------------------------------------------------
(* Invocations side by side.  fetch is async: an invocation runs alone     *)
(* between two awaits, and at an await of a store call another invocation  *)
(* may run.  A mutating invocation has three stretches: up to its          *)
(* SHORT_LINKS.get, from the get to its put or delete, and the write with  *)
(* the return of the Response.                                             *)

Done(task, resp) == [task EXCEPT !.pc = "done", !.response = resp]

\* The key a mutating invocation gets and writes.
TaskKey(task) ==
    IF task.request.method = "DELETE" THEN KeyOf(task.request)
    ELSE JSONparse(task.request.body).value.key

\* From the entry of fetch to the await of SHORT_LINKS.get.
accept(req, j, cfg, t) ==
    LET task == [pc |-> "get", request |-> req, payload |-> Null, response |-> Null] IN
    IF ~cfg THEN Done(task, NotConfigured(NoEntries).response)
    ELSE LET authResult == requireAuth(req, j, t) IN
      IF authResult.rejected THEN Done(task, authResult.response)
      ELSE IF req.method = "DELETE"
      THEN IF KeyOf(req) = <<>>
           THEN Done(task, Response(400, Text("Missing key"), NoHeaders))
           ELSE [task EXCEPT !.payload = authResult.payload]
      ELSE LET body == JSONparse(req.body) IN
        IF ~body.ok \/ body.value = Null
        THEN Done(task, Response(400, Text("Invalid request body"), NoHeaders))
        ELSE IF MissingFields(body.value)
        THEN Done(task, Response(400, Text("Missing required fields: key and url"), NoHeaders))
        ELSE [task EXCEPT !.payload = authResult.payload]

\* From the result of SHORT_LINKS.get to the await of the put or delete.
afterGet(task, kv) ==
    LET existing == get(kv, TaskKey(task)) IN
    IF task.request.method = "POST"
    THEN IF existing # Null
         THEN Done(task, Response(409, Text("Short link already exists"), NoHeaders))
         ELSE [task EXCEPT !.pc = "write"]
    ELSE IF existing = Null
         THEN Done(task, Response(404, Text("Short link not found"), NoHeaders))
         ELSE [task EXCEPT !.pc = "write"]

\* The Response of a write.
Written(task) ==
    IF task.request.method = "DELETE"
    THEN Response(200, [json |-> [success |-> TRUE, key |-> TaskKey(task)]],
                  [contentType |-> "application/json"])
    ELSE Response(IF task.request.method = "POST" THEN 201 ELSE 200,
                  [json |-> [success |-> TRUE, key |-> TaskKey(task),
                             url |-> JSONparse(task.request.body).value.url]],
                  [contentType |-> "application/json"])

\* The record a POST or PUT puts.
RecordOf(task, t) ==
    LET url == JSONparse(task.request.body).value.url IN
    IF task.request.method = "POST"
    THEN [url |-> url, created |-> t, createdBy |-> SubOf(task.payload)]
    ELSE [url |-> url, updated |-> t, updatedBy |-> SubOf(task.payload)]

\* The write of a store whose put of a POST fails on a key that is present.
storeWrite_PutIfAbsent(task, kv, t) ==
    IF task.request.method = "DELETE"
    THEN [task |-> Done(task, Written(task)), kv |-> delete(kv, TaskKey(task))]
    ELSE IF task.request.method = "POST" /\ TaskKey(task) \in DOMAIN kv
    THEN [task |-> Done(task, Response(409, Text("Short link already exists"), NoHeaders)),
          kv |-> kv]
    ELSE [task |-> Done(task, Written(task)),
          kv |-> put(kv, TaskKey(task), JSONstringify(RecordOf(task, t)))]

\* The put or delete and the return of the Response.
storeWrite(task, kv, t) ==
    IF task.request.method = "DELETE"
    THEN [task |-> Done(task, Written(task)), kv |-> delete(kv, TaskKey(task))]
    ELSE [task |-> Done(task, Written(task)),
          kv |-> put(kv, TaskKey(task), JSONstringify(RecordOf(task, t)))]

\* Mutating requests on one key, of two callers and of none.
ConcRequests ==
    {Req(m, Root \o KeyA, a, Link(KeyA, u)) :
        m \in {"POST", "PUT"},
        a \in {BearerAuth(Signed("alice")), BearerAuth(Signed("nosub"))},
        u \in {"https://x", "https://y"}}
    \cup {Req("DELETE", Root \o KeyA, a, NotJson) :
            a \in {BearerAuth(Signed("alice")), NoAuthorization}}

Others == <<PUBLIC_BUCKET, configured, now, request, jwks, response, calls, prev>>

\* A request arrives; the invocation runs to its first store call.
Accept(p, req) ==
    /\ inflight[p].pc = "idle"
    /\ inflight' = [inflight EXCEPT ![p] = accept(req, JwksUp, configured, now)]
    /\ UNCHANGED <<SHORT_LINKS, Others>>

\* SHORT_LINKS.get resolves; the invocation runs to its put or delete.
StoreGet(p) ==
    /\ inflight[p].pc = "get"
    /\ inflight' = [inflight EXCEPT ![p] = afterGet(inflight[p], SHORT_LINKS)]
    /\ UNCHANGED <<SHORT_LINKS, Others>>

\* The put or delete resolves; the invocation returns its Response.
StoreWrite(p) ==
    /\ inflight[p].pc = "write"
    /\ LET out == storeWrite(inflight[p], SHORT_LINKS, now) IN
         /\ inflight' = [inflight EXCEPT ![p] = out.task]
         /\ SHORT_LINKS' = out.kv
    /\ UNCHANGED Others

\* The Response reaches the client.
Return(p) ==
    /\ inflight[p].pc = "done"
    /\ inflight' = [inflight EXCEPT ![p] = Idle]
    /\ UNCHANGED <<SHORT_LINKS, Others>>

NextConc ==
    \E p \in Handlers :
        \/ \E req \in ConcRequests : Accept(p, req)
        \/ StoreGet(p)
        \/ StoreWrite(p)
        \/ Return(p)

SpecConc == Init /\ [][NextConc]_vars

----------------------------------------------------------------------------
\* Invocation p makes its write in this step.
Writes(p) == inflight[p].pc = "write" /\ inflight'[p].pc = "done"

(* C13: a POST that read its key as absent writes its record and answers   *)
(* 201 whatever the store holds by the time of its put: the record left    *)
(* under the key is the one of the put made last.  So two POSTs for one    *)
(* absent key that both read before either writes both answer 201, and     *)
(* "one 201 per key between two DELETEs" does not hold of invocations side *)
(* by side.                                                                *)
C13_CreateRace ==
    [][ \A p \in Handlers :
          (Writes(p) /\ inflight[p].request.method = "POST")
          => LET body == inflight[p].request.body.json IN
             /\ inflight'[p].response.status = 201
             /\ body.key \in DOMAIN SHORT_LINKS'
             /\ Has(SHORT_LINKS'[body.key], "json")
             /\ SHORT_LINKS'[body.key].json.url = body.url
             /\ SHORT_LINKS'[body.key].json.createdBy = SubOf(inflight[p].payload)
             /\ SameBut(SHORT_LINKS, SHORT_LINKS', body.key) ]_vars

\* Two POSTs for the same key, with different urls, have both answered 201
\* and the store holds the record of the second.
C13_Witness ==
    /\ \A p \in Handlers :
         /\ inflight[p].pc = "done"
         /\ inflight[p].request.method = "POST"
         /\ inflight[p].response.status = 201
    /\ inflight[1].request.body.json.key = inflight[2].request.body.json.key
    /\ inflight[1].request.body.json.url # inflight[2].request.body.json.url
    /\ KeyA \in DOMAIN SHORT_LINKS
    /\ Has(SHORT_LINKS[KeyA], "json")
    /\ SHORT_LINKS[KeyA].json.url = inflight[2].request.body.json.url

----------------------------------------------------------------------------
(* C19: in every interleaving of invocations on one key, a key that is     *)
(* absent gets a record only by the put of a POST that answers 201: no PUT *)
(* puts a record under a key that is absent at the moment of its put, so a *)
(* key deleted with 200 stays absent until a POST answers 201.             *)
C19_OnlyPostCreates ==
    [][ (KeyA \notin DOMAIN SHORT_LINKS /\ KeyA \in DOMAIN SHORT_LINKS')
        => \E p \in Handlers :
             /\ Writes(p)
             /\ inflight[p].request.method = "POST"
             /\ inflight'[p].response.status = 201 ]_vars

====
